---------------------------- MODULE Spec2Model ----------------------------
(***************************************************************************)
(* The MCP stdio drivers of omnicontext:                                   *)
(*   scripts/test-mcp-protocol.py  (send_jsonrpc, read_jsonrpc,            *)
(*                                  test_mcp_server, __main__)             *)
(*   tests/test_mcp.py             (send_rpc, main)                        *)
(* together with the subprocess they drive, which is the environment: it   *)
(* may read requests, write any line to its stdout, stay silent, or exit.  *)
(***************************************************************************)
EXTENDS Integers, Sequences, FiniteSets, TLC

(* ------------------------------ bounds --------------------------------- *)
\* lines the subprocess writes to stdout in one run
MaxLines == 4
\* lines the stdout pipe holds unread
MaxBuf == 2

(* ------------------------- program constants --------------------------- *)
\* read_jsonrpc(process, timeout=10)
DefaultTimeout == 10
\* read_jsonrpc(process, timeout=15) of the initialize and search_code steps
LongTimeout == 15
\* process.wait(timeout=5)
GraceWait == 5
\* the four tests of test_mcp_server
NumSteps == 4
\* granularity of the wall clock, in seconds: the largest step that divides
\* every duration of the program
TickLen == GraceWait

Steps == 1..NumSteps

(* --------------------------- JSON values ------------------------------- *)
\* params arguments of send_jsonrpc: None, or a dict given by its keys
ParamsNone == [tag |-> "None", keys |-> {}, tool |-> ""]
ParamsEmpty == [tag |-> "dict", keys |-> {}, tool |-> ""]
ParamsInitialize ==
    [tag |-> "dict", keys |-> {"protocolVersion", "capabilities", "clientInfo"},
     tool |-> ""]
ParamsGetStatus ==
    [tag |-> "dict", keys |-> {"name", "arguments"}, tool |-> "get_status"]
ParamsSearchCode ==
    [tag |-> "dict", keys |-> {"name", "arguments"}, tool |-> "search_code"]
ParamsContextWindow ==
    [tag |-> "dict", keys |-> {"name", "arguments"}, tool |-> "context_window"]

\* Python truth value of a params argument: None and the empty dict are false
ParamsTruthy(params) == params.tag = "dict" /\ params.keys # {}

\* the result member of a response: null, or an object with optional
\* serverInfo, tools (a list of items, TRUE = the item is an object) and
\* content (a list of blocks)
TextBlock(t) == [obj |-> TRUE, text |-> t]
BadBlock == [obj |-> FALSE, text |-> ""]
ResultNull ==
    [obj |-> FALSE, serverInfo |-> FALSE, tools |-> <<>>, content |-> <<>>]
ResultEmpty ==
    [obj |-> TRUE, serverInfo |-> FALSE, tools |-> <<>>, content |-> <<>>]
ResultServerInfo ==
    [obj |-> TRUE, serverInfo |-> TRUE, tools |-> <<>>, content |-> <<>>]
ResultTools ==
    [obj |-> TRUE, serverInfo |-> FALSE, tools |-> <<TRUE>>, content |-> <<>>]
ResultBadTools ==
    [obj |-> TRUE, serverInfo |-> FALSE, tools |-> <<FALSE>>, content |-> <<>>]
ResultText ==
    [obj |-> TRUE, serverInfo |-> FALSE, tools |-> <<>>,
     content |-> <<TextBlock("chunks")>>]
ResultEmptyText ==
    [obj |-> TRUE, serverInfo |-> FALSE, tools |-> <<>>,
     content |-> <<TextBlock("")>>]
ResultBadBlock ==
    [obj |-> TRUE, serverInfo |-> FALSE, tools |-> <<>>,
     content |-> <<BadBlock>>]
Results ==
    {ResultNull, ResultEmpty, ResultServerInfo, ResultTools, ResultBadTools,
     ResultText, ResultEmptyText, ResultBadBlock}

\* a line on the subprocess's stdout.  kind:
\*   "garbage"  not JSON (json.loads raises JSONDecodeError)
\*   "undecodable"  not JSON, and bytes that are no text in the locale's
\*              encoding (the text-mode stream raises UnicodeDecodeError)
\*   "number"   a JSON number such as 5
\*   "list"     the JSON value []
\*   "error"    an object with an error member and no result
\*   "result"   an object with a result member
\* id = 0 stands for an absent id; late records that the line was written
\* after the step that sent request id had completed.
Line(kind, id, result, late) ==
    [kind |-> kind, id |-> id, result |-> result, late |-> late]
None == Line("None", 0, ResultNull, FALSE)
\* the lines a written line w can turn out to be: noise and JSON that is no
\* object carry no id; error and result objects carry w.id
Contents(w) ==
    (IF w.id = 0
     THEN {Line(kind, 0, ResultNull, FALSE) : kind \in {"garbage", "undecodable", "number", "list"}}
     ELSE {})
    \cup {Line("error", w.id, ResultNull, w.late)}
    \cup {Line("result", w.id, r, w.late) : r \in Results}
\* the empty bytes readline returns at end of file
EmptyBytes == Line("empty", 0, ResultNull, FALSE)

(* ------------------------------ state ---------------------------------- *)
VARIABLES
    script,        \* which driver runs: "protocol" (test-mcp-protocol.py) or "test" (test_mcp.py)
    binary,        \* whether target/release/omnicontext-mcp[.exe] exists
    pc,            \* the driver's position
    step,          \* the test (or message) in progress, 1..4
    tests_passed,
    tests_failed,
    response,      \* the value read_jsonrpc / send_rpc returned last
    elapsed,       \* time.time() - start of the wait in progress
    stdin,         \* request lines written and not yet read by the subprocess
    stdout,        \* lines the subprocess wrote and the driver has not read
    process,       \* "none", "running", "blocked" (in a write to the full
                   \* stderr pipe) or "exited"
    seen,          \* ids of the requests the subprocess has read
    emitted,       \* number of lines the subprocess has written
    results,       \* per step: "none", "passed" or "failed" (the printed verdicts)
    signals,       \* signals sent to the subprocess: "TERM", "KILL"
    ret,           \* what test_mcp_server returned: "none", "True", "False"
    in_pipe,       \* history: a response to the request of the step in
                   \* progress was in the pipe when read_jsonrpc was called
    exit_case      \* history: how the subprocess exited: "none" (it has not),
                   \* "after" (every read had returned), "unread" (before
                   \* that, with unread lines in its stdout pipe) or "dry"
                   \* (before that, with nothing left to read)

vars == <<script, binary, pc, step, tests_passed, tests_failed, response,
          elapsed, stdin, stdout, process, seen, emitted, results, signals, ret,
          in_pipe, exit_case>>

driverVars == <<script, binary, pc, step, tests_passed, tests_failed, response,
                results, signals, ret, in_pipe>>

(* -------------------------- request encoding --------------------------- *)
\* the ids, methods and params of the four requests of test_mcp_server
StepId(k) == k
StepMethod(k) ==
    CASE k = 1 -> "initialize"
      [] k = 2 -> "tools/list"
      [] OTHER -> "tools/call"
StepParams(k) ==
    CASE k = 1 -> ParamsInitialize
      [] k = 2 -> ParamsEmpty
      [] k = 3 -> ParamsGetStatus
      [] OTHER -> ParamsSearchCode
StepTimeout(k) == IF k \in {1, 4} THEN LongTimeout ELSE DefaultTimeout

\* the dict send_jsonrpc builds: params is a member only if it is truthy
Request(method, params, id) ==
    [members |-> IF ParamsTruthy(params)
                 THEN <<"jsonrpc", "method", "id", "params">>
                 ELSE <<"jsonrpc", "method", "id">>,
     jsonrpc |-> "2.0", method |-> method, id |-> id,
     params |-> IF ParamsTruthy(params) THEN params ELSE ParamsNone]

\* json.dumps(request) + "\n": the members in insertion order, one line
json_dumps(request) ==
    [i \in 1..Len(request.members) |->
        LET key == request.members[i] IN
        [key |-> key,
         str |-> CASE key = "jsonrpc" -> request.jsonrpc
                   [] key = "method" -> request.method
                   [] OTHER -> "",
         int |-> IF key = "id" THEN request.id ELSE 0,
         dict |-> IF key = "params" THEN request.params ELSE ParamsNone]]

\* the request line send_jsonrpc(process, method, params, id) writes
send_jsonrpc(method, params, id) == json_dumps(Request(method, params, id))

\* what a JSON-RPC peer decodes from a request line: the id, the method and
\* the params member (None when the line has no params member)
Member(line, key) == {i \in 1..Len(line) : line[i].key = key}
DecodeRequest(line) ==
    [id |-> IF Member(line, "id") = {} THEN 0
            ELSE line[CHOOSE i \in Member(line, "id") : TRUE].int,
     method |-> IF Member(line, "method") = {} THEN ""
                ELSE line[CHOOSE i \in Member(line, "method") : TRUE].str,
     params |-> IF Member(line, "params") = {} THEN ParamsNone
                ELSE line[CHOOSE i \in Member(line, "params") : TRUE].dict]

\* the messages main() of test_mcp.py passes to send_rpc, as dict literals
MsgId(k) == CASE k = 1 -> 1 [] k = 2 -> 2 [] k = 3 -> 3 [] OTHER -> 5
MsgMethod(k) ==
    CASE k = 1 -> "initialize"
      [] k = 2 -> "notifications/initialized"
      [] k = 3 -> "tools/list"
      [] OTHER -> "tools/call"
Msg(k) ==
    [members |-> IF k = 2 THEN <<"jsonrpc", "id", "method">>
                 ELSE <<"jsonrpc", "id", "method", "params">>,
     jsonrpc |-> "2.0", method |-> MsgMethod(k), id |-> MsgId(k),
     params |-> CASE k = 1 -> ParamsInitialize
                  [] k = 2 -> ParamsNone
                  [] k = 3 -> ParamsEmpty
                  [] OTHER -> ParamsContextWindow]

(* ----------------------------- verdicts -------------------------------- *)
\* Python truth value of what read_jsonrpc returned
Truthy(r) == r.kind \in {"number", "error", "result"}

\* `response and "result" in response`: "True", "False", or "raise" when
\* the operand of `in` is not a container
HasResult(r) ==
    IF ~Truthy(r) THEN "False"
    ELSE IF r.kind = "number" THEN "raise"
    ELSE IF r.kind = "result" THEN "True" ELSE "False"

\* the bodies of the four `if response and "result" in response:` branches:
\* "passed", "failed", or "raise" when an attribute lookup fails
\* Test1Body with the initialize step insisting on serverInfo
Test1BodyStrict(result) ==
    IF ~result.obj THEN "raise"
    ELSE IF result.serverInfo THEN "passed" ELSE "failed"
Test1Body(result) ==
    IF ~result.obj THEN "raise" ELSE "passed"
Test2Body(result) ==
    IF ~result.obj THEN "raise"
    ELSE IF \E i \in 1..Len(result.tools) : ~result.tools[i] THEN "raise"
    ELSE "passed"
Test3Body(result) ==
    IF ~result.obj THEN "raise"
    ELSE IF result.content # <<>>
         THEN IF ~result.content[1].obj THEN "raise" ELSE "passed"
         ELSE "failed"
\* Test4Body with an empty content list accepted
Test4BodyLenient(result) ==
    IF ~result.obj THEN "raise"
    ELSE IF result.content # <<>>
         THEN IF ~result.content[1].obj THEN "raise" ELSE "passed"
         ELSE "passed"
Test4Body(result) ==
    IF ~result.obj THEN "raise"
    ELSE IF result.content # <<>>
         THEN IF ~result.content[1].obj THEN "raise"
              ELSE IF result.content[1].text # "" THEN "passed" ELSE "passed"
         ELSE "failed"

Verdict(k, r) ==
    CASE HasResult(r) = "raise" -> "raise"
      [] HasResult(r) = "False" -> "failed"
      [] OTHER -> CASE k = 1 -> Test1Body(r.result)
                    [] k = 2 -> Test2Body(r.result)
                    [] k = 3 -> Test3Body(r.result)
                    [] OTHER -> Test4Body(r.result)

(* ------------------------------- Init ---------------------------------- *)
Init ==
    /\ script \in {"protocol", "test"}
    /\ binary \in BOOLEAN
    /\ pc = "start"
    /\ step = 1
    /\ tests_passed = 0
    /\ tests_failed = 0
    /\ response = None
    /\ elapsed = 0
    /\ stdin = <<>>
    /\ stdout = <<>>
    /\ process = "none"
    /\ seen = {}
    /\ emitted = 0
    /\ results = [k \in Steps |-> "none"]
    /\ signals = {}
    /\ ret = "none"
    /\ in_pipe = FALSE
    /\ exit_case = "none"

\* the subprocess has been spawned and has not exited
Alive == process \in {"running", "blocked"}

(* ------------------- test-mcp-protocol.py: the driver ------------------ *)
\* BinaryNotFound with the existence test ignored: the spawn is attempted
BinaryNotFoundSpawns ==
    /\ script = "protocol" /\ pc = "start" /\ ~binary
    /\ process' = "running"
    /\ pc' = "send"
    /\ UNCHANGED <<script, binary, step, tests_passed, tests_failed, response,
                   elapsed, stdin, stdout, seen, emitted, results, signals, ret,
                   in_pipe, exit_case>>

\* binary_path.exists() is false for both candidates: return False
BinaryNotFound ==
    /\ script = "protocol" /\ pc = "start" /\ ~binary
    /\ ret' = "False"
    /\ pc' = "returned"
    /\ UNCHANGED <<script, binary, step, tests_passed, tests_failed, response,
                   elapsed, stdin, stdout, process, seen, emitted, results,
                   signals,
                   in_pipe, exit_case>>

\* subprocess.Popen(...), then time.sleep(3) and the two counters set to 0
Popen ==
    /\ script = "protocol" /\ pc = "start" /\ binary
    /\ process' = "running"
    /\ tests_passed' = 0
    /\ tests_failed' = 0
    /\ pc' = "send"
    /\ UNCHANGED <<script, binary, step, response, elapsed, stdin, stdout,
                   seen, emitted, results, signals, ret,
                   in_pipe, exit_case>>

\* SendRequest with the next request written before the response is read
SendRequestPipelined ==
    /\ script = "protocol" /\ pc = "send"
    /\ Alive
    /\ stdin' = Append(stdin, send_jsonrpc(StepMethod(step),
                                           StepParams(step), StepId(step)))
    /\ IF step < NumSteps
       THEN step' = step + 1 /\ pc' = "send"
       ELSE step' = step /\ pc' = "read_jsonrpc"
    /\ UNCHANGED <<script, binary, tests_passed, tests_failed, response,
                   elapsed, stdout, process, seen, emitted, results, signals,
                   ret,
                   in_pipe, exit_case>>

\* send_jsonrpc(process, method, params, id=step): the line is written and
\* flushed; writing to the pipe of an exited subprocess raises
\* BrokenPipeError, which the try of test_mcp_server catches.  The previous
\* step's response is not used again: the assignment of the read_jsonrpc
\* that follows overwrites it
SendRequest ==
    /\ script = "protocol" /\ pc = "send"
    /\ IF Alive
       THEN /\ stdin' = Append(stdin, send_jsonrpc(StepMethod(step),
                                                   StepParams(step), StepId(step)))
            /\ pc' = "read_jsonrpc"
       ELSE /\ pc' = "except"
            /\ UNCHANGED stdin
    /\ response' = None
    /\ UNCHANGED <<script, binary, step, tests_passed, tests_failed,
                   elapsed, stdout, process, seen, emitted, results, signals,
                   ret, in_pipe, exit_case>>

\* read_jsonrpc is entered: start = time.time()
ReadEnter ==
    /\ script = "protocol" /\ pc = "read_jsonrpc"
    /\ elapsed' = 0
    /\ pc' = "while"
    /\ in_pipe' = \E i \in 1..Len(stdout) :
                      stdout[i].id = StepId(step) /\ ~stdout[i].late
    /\ UNCHANGED <<script, binary, step, tests_passed, tests_failed, response,
                   stdin, stdout, process, seen, emitted, results, signals,
                   ret, exit_case>>

\* while time.time() - start < timeout: ... ; return None
ReadWhile ==
    /\ script = "protocol" /\ pc = "while"
    /\ IF elapsed < StepTimeout(step)
       THEN /\ pc' = "readline"
            /\ UNCHANGED <<response, elapsed>>
       ELSE /\ response' = None
            /\ elapsed' = 0
            /\ pc' = "verdict"
    /\ UNCHANGED <<script, binary, step, tests_passed, tests_failed, stdin,
                   stdout, process, seen, emitted, results, signals, ret,
                   in_pipe, exit_case>>

\* line = process.stdout.readline(): blocks until a line is there or the
\* stream is at end of file; a line that decodes is returned, a line that
\* does not decode and the empty string of end of file go round the loop.
\* The stream is opened with text=True: bytes that are no text make
\* readline itself raise, outside the try of read_jsonrpc.
Readline ==
    /\ script = "protocol" /\ pc = "readline"
    /\ \/ /\ stdout # <<>>
          /\ stdout' = Tail(stdout)
          /\ \E line \in Contents(Head(stdout)) :
                CASE line.kind = "garbage" ->
                        pc' = "while" /\ UNCHANGED <<response, elapsed>>
                  [] line.kind = "undecodable" ->
                        pc' = "except" /\ UNCHANGED <<response, elapsed>>
                  [] OTHER ->
                        pc' = "verdict" /\ response' = line /\ elapsed' = 0
       \/ /\ stdout = <<>> /\ process = "exited"
          /\ pc' = "while"
          /\ UNCHANGED <<stdout, response, elapsed>>
    /\ UNCHANGED <<script, binary, step, tests_passed, tests_failed, stdin,
                   process, seen, emitted, results, signals, ret,
                   in_pipe, exit_case>>

\* the if/else after read_jsonrpc of the test in progress: one counter is
\* incremented, or an exception leaves the try block
RecordVerdict ==
    /\ script = "protocol" /\ pc = "verdict"
    /\ LET v == Verdict(step, response) IN
       IF v = "raise"
       THEN /\ pc' = "except"
            /\ UNCHANGED <<step, tests_passed, tests_failed, results, in_pipe>>
       ELSE /\ tests_passed' = IF v = "passed" THEN tests_passed + 1
                               ELSE tests_passed
            /\ tests_failed' = IF v = "failed" THEN tests_failed + 1
                               ELSE tests_failed
            /\ results' = [results EXCEPT ![step] = v]
            /\ IF step < NumSteps
               THEN step' = step + 1 /\ pc' = "send"
               ELSE step' = step /\ pc' = "summary"
            /\ in_pipe' = FALSE
    /\ UNCHANGED <<script, binary, response, elapsed, stdin, stdout, process,
                   seen, emitted, signals, ret, exit_case>>

\* Summary returning True whatever was counted
SummaryAlwaysTrue ==
    /\ script = "protocol" /\ pc = "summary"
    /\ ret' = "True"
    /\ pc' = "finally"
    /\ UNCHANGED <<script, binary, step, tests_passed, tests_failed, response,
                   elapsed, stdin, stdout, process, seen, emitted, results,
                   signals,
                   in_pipe, exit_case>>

\* the summary: return tests_failed == 0; response is not used after it
Summary ==
    /\ script = "protocol" /\ pc = "summary"
    /\ ret' = IF tests_failed = 0 THEN "True" ELSE "False"
    /\ pc' = "finally"
    /\ response' = None
    /\ UNCHANGED <<script, binary, step, tests_passed, tests_failed,
                   elapsed, stdin, stdout, process, seen, emitted, results,
                   signals,
                   in_pipe, exit_case>>

\* Except with the cleanup left out of the exception path
ExceptNoFinally ==
    /\ script = "protocol" /\ pc = "except"
    /\ ret' = "False"
    /\ pc' = "returned"
    /\ UNCHANGED <<script, binary, step, tests_passed, tests_failed, response,
                   elapsed, stdin, stdout, process, seen, emitted, results,
                   signals,
                   in_pipe, exit_case>>

\* Except with the exception swallowed and success reported
ExceptReturnsTrue ==
    /\ script = "protocol" /\ pc = "except"
    /\ ret' = "True"
    /\ pc' = "finally"
    /\ UNCHANGED <<script, binary, step, tests_passed, tests_failed, response,
                   elapsed, stdin, stdout, process, seen, emitted, results,
                   signals, in_pipe, exit_case>>

\* except Exception: return False; response is not used after it
Except ==
    /\ script = "protocol" /\ pc = "except"
    /\ ret' = "False"
    /\ pc' = "finally"
    /\ response' = None
    /\ UNCHANGED <<script, binary, step, tests_passed, tests_failed,
                   elapsed, stdin, stdout, process, seen, emitted, results,
                   signals,
                   in_pipe, exit_case>>

\* finally: process.terminate(), then process.wait(timeout=5) is entered
Terminate ==
    /\ script = "protocol" /\ pc = "finally"
    /\ signals' = signals \cup {"TERM"}
    /\ elapsed' = 0
    /\ pc' = "wait"
    /\ UNCHANGED <<script, binary, step, tests_passed, tests_failed, response,
                   stdin, stdout, process, seen, emitted, results, ret,
                   in_pipe, exit_case>>

\* process.wait(timeout=5) returns because the subprocess has exited
WaitReturns ==
    /\ script = "protocol" /\ pc = "wait"
    /\ process = "exited"
    /\ pc' = "stopped"
    /\ elapsed' = 0
    /\ UNCHANGED <<script, binary, step, tests_passed, tests_failed, response,
                   stdin, stdout, process, seen, emitted, results,
                   signals, ret,
                   in_pipe, exit_case>>

\* WaitExpires with a wait for the killed subprocess that never times out
WaitExpiresThenBlocks ==
    /\ script = "protocol" /\ pc = "wait"
    /\ Alive /\ elapsed >= GraceWait /\ "KILL" \notin signals
    /\ signals' = signals \cup {"KILL"}
    /\ UNCHANGED <<script, binary, pc, step, tests_passed, tests_failed,
                   response, elapsed, stdin, stdout, process, seen, emitted,
                   results, ret,
                   in_pipe, exit_case>>

\* process.wait(timeout=5) raises TimeoutExpired: process.kill()
WaitExpires ==
    /\ script = "protocol" /\ pc = "wait"
    /\ Alive /\ elapsed >= GraceWait
    /\ signals' = signals \cup {"KILL"}
    /\ pc' = "stopped"
    /\ elapsed' = 0
    /\ UNCHANGED <<script, binary, step, tests_passed, tests_failed, response,
                   stdin, stdout, process, seen, emitted, results, ret,
                   in_pipe, exit_case>>

\* print("Server stopped"); test_mcp_server returns
Return ==
    /\ script = "protocol" /\ pc = "stopped"
    /\ pc' = "returned"
    /\ UNCHANGED <<script, binary, step, tests_passed, tests_failed, response,
                   elapsed, stdin, stdout, process, seen, emitted, results,
                   signals, ret,
                   in_pipe, exit_case>>

\* sys.exit(0 if success else 1)
ExitStatus == IF ret = "True" THEN 0 ELSE 1

\* __main__: success = test_mcp_server(); sys.exit(...)
Exit ==
    /\ script = "protocol" /\ pc = "returned"
    /\ pc' = "exited"
    /\ UNCHANGED <<script, binary, step, tests_passed, tests_failed, response,
                   elapsed, stdin, stdout, process, seen, emitted, results,
                   signals, ret,
                   in_pipe, exit_case>>

\* the wall clock advances while the driver measures it.  The driver's own
\* statements take no measurable time: seconds pass only while it has no
\* line to read (blocked in readline, or spinning at end of file) or while
\* process.wait waits for a subprocess that has not exited.
Tick ==
    /\ \/ /\ pc \in {"while", "readline"} /\ stdout = <<>>
          /\ elapsed < StepTimeout(step)
       \/ pc = "wait" /\ process # "exited" /\ elapsed < GraceWait
    /\ elapsed' = elapsed + TickLen
    /\ UNCHANGED <<script, binary, pc, step, tests_passed, tests_failed,
                   response, stdin, stdout, process, seen, emitted, results,
                   signals, ret,
                   in_pipe, exit_case>>

(* ------------------------- tests/test_mcp.py --------------------------- *)
\* main(): subprocess.Popen(...); a missing binary raises FileNotFoundError
MainPopen ==
    /\ script = "test" /\ pc = "start"
    /\ IF binary
       THEN process' = "running" /\ pc' = "send_rpc"
       ELSE process' = process /\ pc' = "crashed"
    /\ UNCHANGED <<script, binary, step, tests_passed, tests_failed, response,
                   elapsed, stdin, stdout, seen, emitted, results, signals, ret,
                   in_pipe, exit_case>>

\* send_rpc: proc.stdin.write(payload); proc.stdin.flush().  Nothing
\* catches the BrokenPipeError of a write to an exited subprocess
SendRpcWrite ==
    /\ script = "test" /\ pc = "send_rpc"
    /\ IF Alive
       THEN /\ stdin' = Append(stdin, json_dumps(Msg(step)))
            /\ pc' = "rpc_readline"
       ELSE /\ pc' = "crashed"
            /\ UNCHANGED stdin
    /\ UNCHANGED <<script, binary, step, tests_passed, tests_failed, response,
                   elapsed, stdout, process, seen, emitted, results, signals,
                   ret,
                   in_pipe, exit_case>>

\* send_rpc: line = proc.stdout.readline(), for every message alike; the
\* decoded line is returned, or the line itself when it does not decode
SendRpcReadline ==
    /\ script = "test" /\ pc = "rpc_readline"
    /\ \/ /\ stdout # <<>>
          /\ stdout' = Tail(stdout)
          /\ response' \in Contents(Head(stdout))
       \/ /\ stdout = <<>> /\ process = "exited"
          /\ response' = EmptyBytes
          /\ UNCHANGED stdout
    /\ pc' = "print"
    /\ UNCHANGED <<script, binary, step, tests_passed, tests_failed, elapsed,
                   stdin, process, seen, emitted, results, signals, ret,
                   in_pipe, exit_case>>

\* main(): print(send_rpc(...)), then the next message; the returned value
\* is kept nowhere
MainPrint ==
    /\ script = "test" /\ pc = "print"
    /\ IF step < NumSteps
       THEN step' = step + 1 /\ pc' = "send_rpc"
       ELSE step' = step /\ pc' = "terminate"
    /\ response' = None
    /\ UNCHANGED <<script, binary, tests_passed, tests_failed, elapsed, stdin, stdout, process, seen, emitted, results,
                   signals, ret,
                   in_pipe, exit_case>>

\* main(): proc.terminate()
MainTerminate ==
    /\ script = "test" /\ pc = "terminate"
    /\ signals' = signals \cup {"TERM"}
    /\ pc' = "returned"
    /\ UNCHANGED <<script, binary, step, tests_passed, tests_failed, response,
                   elapsed, stdin, stdout, process, seen, emitted, results, ret,
                   in_pipe, exit_case>>

(* ----------------- the subprocess (the environment) -------------------- *)
\* the read of step k has returned.  In test_mcp.py no wait ever ends
\* before its line is read, so no line is late there.
StepCompleted(k) ==
    /\ script = "protocol"
    /\ \/ k < step
       \/ k = step /\ pc \notin {"send", "read_jsonrpc", "while", "readline"}

\* the subprocess writes a line without id (id 0: noise, or a message of
\* its own) or with the id of a request it has read.  What else the line
\* holds is fixed when it is written, but nothing observes it before the
\* driver reads the line, so the model draws it at the read (Contents).
Written(id) == [id |-> id, late |-> id # 0 /\ StepCompleted(id)]

\* the subprocess reads one request line from its stdin
ServerRead ==
    /\ process = "running" /\ stdin # <<>>
    /\ seen' = seen \cup {DecodeRequest(Head(stdin)).id}
    /\ stdin' = Tail(stdin)
    /\ UNCHANGED <<driverVars, elapsed, stdout, process, emitted, exit_case>>

\* the subprocess writes one line to its stdout
ServerWrite ==
    /\ process = "running" /\ emitted < MaxLines /\ Len(stdout) < MaxBuf
    /\ \E id \in seen \cup {0} : stdout' = Append(stdout, Written(id))
    /\ emitted' = emitted + 1
    /\ UNCHANGED <<driverVars, elapsed, stdin, process, seen, exit_case>>

\* the subprocess writes to its stderr.  stderr=subprocess.PIPE, and no
\* statement of either driver reads process.stderr: once the subprocess has
\* logged as much as the pipe holds, its next write blocks, for good.
ServerBlocks ==
    /\ process = "running"
    /\ process' = "blocked"
    /\ UNCHANGED <<driverVars, elapsed, stdin, stdout, seen, emitted,
                   exit_case>>

\* the subprocess exits: on its own, on SIGTERM or on SIGKILL; blocked in a
\* write it exits only on a signal
ServerExit ==
    /\ \/ process = "running"
       \/ process = "blocked" /\ signals # {}
    /\ process' = "exited"
    /\ exit_case' = IF \A k \in Steps : StepCompleted(k) THEN "after"
                    ELSE IF stdout = <<>> THEN "dry" ELSE "unread"
    /\ UNCHANGED <<driverVars, elapsed, stdin, stdout, seen, emitted>>

(* ------------------------------- Spec ---------------------------------- *)
Next ==
    \/ BinaryNotFound \/ Popen \/ SendRequest \/ ReadEnter \/ ReadWhile
    \/ Readline \/ RecordVerdict \/ Summary \/ Except \/ Terminate
    \/ WaitReturns \/ WaitExpires \/ Return \/ Exit \/ Tick
    \/ MainPopen \/ SendRpcWrite \/ SendRpcReadline \/ MainPrint
    \/ MainTerminate
    \/ ServerRead \/ ServerWrite \/ ServerBlocks \/ ServerExit

Spec == Init /\ [][Next]_vars

(* ------------------------------ claims --------------------------------- *)
\* the response that decided the verdict of test k is in `response` from the
\* return of read_jsonrpc until the next request is sent
JudgedIs(k) ==
    /\ script = "protocol"
    /\ \/ step = k /\ pc \in {"verdict", "summary"}
       \/ step = k + 1 /\ pc = "send"

\* the steps whose request line was written to stdin
SentIds == seen \cup {DecodeRequest(stdin[i]).id : i \in DOMAIN stdin}

\* C1 (as claimed): the verdict of the step that sent request id N is
\* computed only from a decoded response whose id is N; a decoded line with
\* another id, or with none, is never used as the response of step N.
C1_VerdictFromMatchingId ==
    (script = "protocol" /\ pc = "verdict" /\ response # None)
        => response.id = StepId(step)

\* C2 (as claimed): a response for id X written after step X has completed
\* is discarded: it is never the response from which a later step's verdict
\* is computed.
C2_LateResponseDiscarded ==
    (script = "protocol" /\ pc = "verdict") => ~response.late

\* C3 (as claimed): once the deadline of read_jsonrpc has elapsed the call
\* returns whatever the subprocess does: the driver can take its next step
\* without a further line from a subprocess that stays alive.
C3_ReadReturnsAtDeadline ==
    (script = "protocol" /\ pc \in {"while", "readline"}
        /\ elapsed >= StepTimeout(step))
        => ENABLED (ReadWhile \/ Readline)

\* C4 (as claimed): every executed step records exactly one result: when
\* test_mcp_server has returned, each step whose request was sent has a
\* verdict and tests_passed + tests_failed is the number of those steps.
C4_OneResultPerStep ==
    (script = "protocol" /\ pc = "returned")
        => /\ \A k \in Steps : k \in SentIds => results[k] # "none"
           /\ tests_passed + tests_failed = Cardinality(SentIds)

\* C5 (as claimed): a failed or timed-out step does not abort the run: when
\* step k was recorded as failed, step k+1 gets its own result (k = 1..3).
C5_FailedStepDoesNotAbort ==
    (script = "protocol" /\ pc = "returned")
        => \A k \in 1..(NumSteps - 1) :
              results[k] = "failed" => results[k + 1] # "none"

\* C6 (as claimed): once the subprocess is spawned no error aborts the run:
\* an error raised in a step is caught at that step, so the handler around
\* the whole run is never entered and all four steps get a result.
C6_OnlySpawnErrorAborts ==
    /\ pc # "except"
    /\ (script = "protocol" /\ pc = "returned" /\ process # "none")
          => \A k \in Steps : results[k] # "none"

\* C7 (as claimed): no response is awaited for a notification: after
\* notifications/initialized was sent the driver does not wait on the
\* subprocess's stdout before it sends tools/list.
C7_NoWaitForNotification ==
    (script = "test" /\ MsgMethod(step) = "notifications/initialized")
        => pc # "rpc_readline"

\* C8 (as claimed): the search_code step passes on any response that
\* carries a result, even when the result's content is empty or absent.
C8_SearchPassesOnAnyResult ==
    (JudgedIs(NumSteps) /\ pc = "summary" /\ response.kind = "result")
        => results[NumSteps] = "passed"

\* C8 (amended): the search_code step passes on a response whose result has
\* a content list with a first block, even when that block's text is empty;
\* a result whose content is empty or absent is recorded as failed.
C8_SearchPassesOnContent ==
    (JudgedIs(NumSteps) /\ pc = "summary" /\ response.kind = "result")
        => /\ response.result.content # <<>>
                => results[NumSteps] = "passed"
           /\ response.result.content = <<>>
                => results[NumSteps] = "failed" /\ tests_failed >= 1

\* C8 witness: search_code answered by a result without content, failed
C8_Witness ==
    /\ JudgedIs(NumSteps) /\ pc = "summary"
    /\ response.kind = "result" /\ response.result.obj
    /\ response.result.content = <<>>
    /\ results[NumSteps] = "failed"

C10_RequestRoundTrip ==
    script = "protocol"
        => \A i \in DOMAIN stdin :
              LET d == DecodeRequest(stdin[i]) IN
              /\ d.id \in Steps
              /\ d.method = StepMethod(d.id)
              /\ d.params = StepParams(d.id)

\* C11: the harness exits with status 0 exactly when the subprocess was
\* spawned, all four steps were recorded as passed and no exception was
\* raised; in every other case it exits with status 1.
C11_ExitStatus ==
    (script = "protocol" /\ pc = "exited")
        => /\ ExitStatus \in {0, 1}
           /\ ExitStatus = 0
                <=> /\ process # "none"
                    /\ \A k \in Steps : results[k] = "passed"
                    /\ tests_failed = 0 /\ tests_passed = NumSteps

\* C11 witness: a run with a failed step has exited with status 1
C11_Witness ==
    /\ script = "protocol" /\ pc = "exited"
    /\ \A k \in Steps : results[k] # "none"
    /\ tests_failed >= 1 /\ ExitStatus = 1

\* C12: whenever test_mcp_server returns after the subprocess was spawned,
\* termination of the subprocess has been requested, whether all steps
\* passed, a step failed or a step raised an exception.
C12_TeardownAlwaysRuns ==
    (script = "protocol" /\ pc \in {"returned", "exited"} /\ process # "none")
        => "TERM" \in signals

\* C12 witness: a run that left the steps by an exception has returned
\* with the termination requested
C12_Witness ==
    /\ script = "protocol" /\ pc = "returned" /\ process # "none"
    /\ \E k \in Steps : results[k] = "none"
    /\ ret = "False" /\ "TERM" \in signals

\* C14: when neither candidate binary exists, test_mcp_server returns False
\* without spawning a process, sending a request or recording a result, and
\* the script exits with status 1.
C14_MissingBinaryIsFatal ==
    (script = "protocol" /\ ~binary)
        => /\ process = "none" /\ stdin = <<>> /\ signals = {}
           /\ tests_passed = 0 /\ tests_failed = 0
           /\ \A k \in Steps : results[k] = "none"
           /\ pc \in {"start", "returned", "exited"}
           /\ pc \in {"returned", "exited"} => ret = "False"
           /\ pc = "exited" => ExitStatus = 1

\* C14 witness: the script has exited with status 1 for a missing binary
C14_Witness ==
    /\ script = "protocol" /\ ~binary /\ pc = "exited"
    /\ ret = "False" /\ ExitStatus = 1 /\ process = "none"

\* a step of the teardown, or of the clock it waits on
TeardownStep == Terminate \/ WaitReturns \/ WaitExpires \/ Return \/ Tick

\* C13: once the teardown has started it completes without the subprocess's
\* cooperation: it can always take its next step or the grace wait is still
\* running and bounded by 5 seconds; when it finishes with a subprocess
\* that has not exited, the forced kill was issued and nothing more was
\* waited for.
C13_TeardownTerminates ==
    /\ (script = "protocol" /\ pc \in {"finally", "wait", "stopped"})
          => ENABLED TeardownStep /\ (pc = "wait" => elapsed <= GraceWait)
    /\ (script = "protocol" /\ pc \in {"stopped", "returned", "exited"}
          /\ process \notin {"none", "exited"})
          => "KILL" \in signals

\* C13 witness: the grace wait expired on a subprocess that ignored the
\* terminate request; the kill was issued and the teardown is over
C13_Witness ==
    /\ script = "protocol" /\ pc = "stopped"
    /\ process # "exited" /\ signals = {"TERM", "KILL"}

\* C15: requests are never pipelined: a request is written only after the
\* read of the previous step has returned and its verdict is recorded, so
\* at most one request is without its returned read at any time.
C15_NeverPipelined ==
    /\ script = "protocol"
          => /\ \A k \in SentIds : k \in 1..step
                    /\ (k > 1 => results[k - 1] # "none")
             /\ Cardinality({k \in SentIds : ~StepCompleted(k)}) <= 1
    /\ script = "test"
          => Cardinality(SentIds)
                <= (IF pc \in {"start", "send_rpc"} THEN step - 1 ELSE step)

\* C15 witness: the request of step 2 is written, after step 1 got a result
C15_Witness ==
    /\ script = "protocol" /\ step = 2 /\ pc = "read_jsonrpc"
    /\ SentIds = {1, 2} /\ results[1] # "none"

\* C18 (as claimed): when the teardown has finished and reported the server
\* as stopped, the subprocess has exited, also after a forced kill.
C18_StoppedMeansExited ==
    (script = "protocol" /\ pc \in {"stopped", "returned", "exited"}
        /\ process # "none")
        => process = "exited"

\* C16 (as claimed): a line that is not JSON is skipped and never fails the
\* run: reading a line either returns a decoded value to the step or goes
\* round the loop; it never leaves the run's try block.
C16_MalformedLinesSkipped ==
    [][(script = "protocol" /\ pc = "readline")
          => pc' \in {"readline", "while", "verdict"}]_vars

\* C17 (as claimed): no lost wake-up: when a response to the request of
\* the step in progress was already in the pipe at the call of
\* read_jsonrpc, that call returns it: the call ends with a response
\* object carrying the step's id, not with another value or an exception.
C17_NoLostWakeup ==
    (script = "protocol" /\ in_pipe /\ pc \in {"verdict", "except"})
        => /\ pc = "verdict"
           /\ response.kind \in {"error", "result"}
           /\ response.id = StepId(step)

\* a step of the protocol driver, or of the clock it reads
ProtocolStep ==
    \/ SendRequest \/ ReadEnter \/ ReadWhile \/ Readline \/ RecordVerdict
    \/ Summary \/ Except \/ Terminate \/ WaitReturns \/ WaitExpires
    \/ Return \/ Exit \/ Tick

\* C19 (as claimed): a subprocess that exits before the reads of all four
\* steps have returned never yields a successful run.
C19_EarlyExitNeverSucceeds ==
    (script = "protocol" /\ exit_case \in {"dry", "unread"}) => ret # "True"

\* C19 (amended): a subprocess that exits before the reads of all four
\* steps have returned, leaving no unread line in its stdout pipe, never
\* yields a successful run: the driver keeps taking steps until it has
\* exited, it returns False after the terminate request of its teardown,
\* and the exit status is 1.
C19_DryExitNeverSucceeds ==
    (script = "protocol" /\ exit_case = "dry")
        => /\ ret # "True"
           /\ pc # "exited" => ENABLED ProtocolStep
           /\ pc \in {"returned", "exited"}
                 => ret = "False" /\ "TERM" \in signals
           /\ pc = "exited" => ExitStatus = 1

\* C19 witness: the subprocess exited with nothing left to read while the
\* search step was waiting; the run timed out, tore down and exited with 1
C19_Witness ==
    /\ script = "protocol" /\ exit_case = "dry" /\ pc = "exited"
    /\ results[NumSteps] = "failed" /\ tests_passed = NumSteps - 1
    /\ ret = "False" /\ "TERM" \in signals

\* C20 (as claimed): the undrained stderr pipe cannot deadlock the run: the
\* subprocess is never blocked in a write to the full stderr pipe while the
\* driver is blocked in readline with nothing to read.
C20_StderrCannotDeadlock ==
    ~ /\ process = "blocked"
      /\ pc \in {"readline", "rpc_readline"}
      /\ stdout = <<>>
====
